---- MODULE Spec2Model ----
(***************************************************************************)
(* A model of the LP-file parser front end: the case-insensitive keyword   *)
(* scans (take_until_cased, take_until_parser, take_until_no_case), the    *)
(* section-header recognizers, the comment / problem-name scanner and the  *)
(* assembler LPProblem::try_from.                                          *)
(*                                                                         *)
(* Text is a sequence of characters; a character is a one-element string,  *)
(* except the two characters "e_acute" and "E_ACUTE", which stand for the  *)
(* letters U+00E9 and U+00C9: each is ONE char and TWO bytes in UTF-8.     *)
(* Rust's &str is indexed by byte and Vec<char> by char, and the model     *)
(* keeps the two apart.                                                    *)
(***************************************************************************)
EXTENDS Integers, Sequences, FiniteSets, TLC

VARIABLES
    input,    \* the text handed to the operation
    tags,     \* the keyword list handed to a scan
    variant,  \* a second text: `input` with whitespace inserted
    pc,       \* the position of the running operation
    rest,     \* try_from: the input not yet consumed
    res,      \* the result of the operation on `input`
    vres,     \* the result of the operation on `variant`
    stages,   \* try_from: the stages run so far, in order
    parts     \* try_from: the sections the input was written from

vars == <<input, tags, variant, pc, rest, res, vres, stages, parts>>

(***************************************************************************)
(* Bounds of the model.                                                    *)
(***************************************************************************)
MaxScanLen == 5
MaxTags == 2
MaxCommentLen == 6
MaxPieces == 2
MaxSuffix == 1

None == [kind |-> "None"]
Some(v) == [kind |-> "Some", val |-> v]

(***************************************************************************)
(* Characters.                                                             *)
(***************************************************************************)
UpperLetters ==
    <<"A","B","C","D","E","F","G","H","I","J","K","L","M",
      "N","O","P","Q","R","S","T","U","V","W","X","Y","Z","E_ACUTE">>
LowerLetters ==
    <<"a","b","c","d","e","f","g","h","i","j","k","l","m",
      "n","o","p","q","r","s","t","u","v","w","x","y","z","e_acute">>

TwoByteChars == {"e_acute", "E_ACUTE"}

LowerCaseMap ==
    [c \in {UpperLetters[i] : i \in 1..Len(UpperLetters)} |->
        LowerLetters[CHOOSE i \in 1..Len(UpperLetters) : UpperLetters[i] = c]]
UpperCaseMap ==
    [c \in {LowerLetters[i] : i \in 1..Len(LowerLetters)} |->
        UpperLetters[CHOOSE i \in 1..Len(LowerLetters) : LowerLetters[i] = c]]

\* char::to_lowercase
ToLowerChar(c) == IF c \in DOMAIN LowerCaseMap THEN LowerCaseMap[c] ELSE c

ToUpperChar(c) == IF c \in DOMAIN UpperCaseMap THEN UpperCaseMap[c] ELSE c

\* str::to_lowercase / String::to_lowercase
ToLowercase(s) == [i \in 1..Len(s) |-> ToLowerChar(s[i])]
ToUppercase(s) == [i \in 1..Len(s) |-> ToUpperChar(s[i])]

\* char::len_utf8
LenUtf8(c) == IF c \in TwoByteChars THEN 2 ELSE 1

\* str::len: the length in BYTES
RECURSIVE StrLen(_)
StrLen(s) == IF s = <<>> THEN 0 ELSE LenUtf8(Head(s)) + StrLen(Tail(s))

Drop(s, n) == SubSeq(s, n + 1, Len(s))
Take(s, n) == SubSeq(s, 1, n)

\* str::is_char_boundary
IsCharBoundary(s, b) == \E k \in 0..Len(s) : StrLen(Take(s, k)) = b

CharsBefore(s, b) == CHOOSE k \in 0..Len(s) : StrLen(Take(s, k)) = b

TextsUpTo(alphabet, n) == UNION {[1..k -> alphabet] : k \in 0..n}

(***************************************************************************)
(* Results: nom's IResult, plus the panic a slice or an index out of range *)
(* raises.                                                                 *)
(***************************************************************************)
Ok(remaining, output) == [kind |-> "Ok", rest |-> remaining, out |-> output]
Error(at, code) == [kind |-> "Err", at |-> at, code |-> code]
Panic == [kind |-> "Panic"]
NotRun == [kind |-> "NotRun"]

(***************************************************************************)
(* src/src/lib.rs: the keyword tables.                                     *)
(***************************************************************************)
KwSubjectTo == <<"s","u","b","j","e","c","t"," ","t","o">>
KwSuchThat == <<"s","u","c","h"," ","t","h","a","t">>
KwSDotT == <<"s",".","t",".">>
KwStColon == <<"s","t",":">>
KwSt == <<"s","t">>

CONSTRAINT_HEADERS == <<KwSubjectTo, KwSuchThat, KwSDotT, KwStColon, KwSt>>

KwBounds == <<"b","o","u","n","d","s">>
KwBound == <<"b","o","u","n","d">>
KwGenerals == <<"g","e","n","e","r","a","l","s">>
KwGeneral == <<"g","e","n","e","r","a","l">>
KwGen == <<"g","e","n">>
KwIntegers == <<"i","n","t","e","g","e","r","s">>
KwInteger == <<"i","n","t","e","g","e","r">>
KwBinaries == <<"b","i","n","a","r","i","e","s">>
KwBinary == <<"b","i","n","a","r","y">>
KwBin == <<"b","i","n">>
KwSemiContinuous == <<"s","e","m","i","-","c","o","n","t","i","n","u","o","u","s">>
KwSemis == <<"s","e","m","i","s">>
KwSemi == <<"s","e","m","i">>
KwSos == <<"s","o","s">>
KwEnd == <<"e","n","d">>

BINARY_HEADERS == <<KwBinaries, KwBinary, KwBin, KwEnd>>
GENERAL_HEADERS == <<KwGenerals, KwGeneral, KwGen, KwEnd>>
INTEGER_HEADERS == <<KwIntegers, KwInteger, KwEnd>>
SEMI_HEADERS == <<KwSemiContinuous, KwSemis, KwSemi, KwEnd>>
SOS_HEADERS == <<KwSos, KwEnd>>

(***************************************************************************)
(* src/src/lib.rs: take_until_cased, take_until_parser;                    *)
(* src/src/nom/lp_problem.rs: take_until_no_case.                          *)
(***************************************************************************)
\* window.to_lowercase() == tag_lower, for the window chars[index..index + tag.len()]
WindowMatches(tag, chars, index) ==
    ToLowercase(SubSeq(chars, index + 1, index + StrLen(tag))) = ToLowercase(tag)

\* The while loop: the first index in 0..=chars.len() - tag.len() whose window
\* matches, or -1 when the loop runs to its end.
FirstMatch(tag, chars) ==
    LET hits == {i \in 0..(Len(chars) - StrLen(tag)) : WindowMatches(tag, chars, i)}
    IN  IF hits = {} THEN -1 ELSE CHOOSE i \in hits : \A j \in hits : i <= j

\* Ok((&input[index..], &input[..index])): `index` counts chars, the slices
\* take it as a byte offset, and a byte offset inside a char panics.
SplitAtIndex(text, index) ==
    IF ~IsCharBoundary(text, index) THEN Panic
    ELSE Ok(Drop(text, CharsBefore(text, index)), Take(text, CharsBefore(text, index)))

TakeUntilCased(tag, text) ==
    IF Len(text) < StrLen(tag) THEN Error(text, "TakeUntil")
    ELSE LET index == FirstMatch(tag, text)
         IN  IF index = -1 THEN Error(text, "TakeUntil")
             ELSE SplitAtIndex(text, index)

\* No length guard: chars.len() - tag.len() overflows when the text is shorter
\* than the tag. A debug build panics at the subtraction; a release build wraps
\* the bound and panics at chars[0..tag.len()]. Either build panics.
TakeUntilNoCase(tag, text) ==
    IF Len(text) < StrLen(tag) THEN Panic
    ELSE LET index == FirstMatch(tag, text)
         IN  IF index = -1 THEN Error(text, "TakeUntil")
             ELSE SplitAtIndex(text, index)

\* tags.iter().map(take_until_cased).fold(Err(Alt), |acc, p| acc.map_or_else(|_| p(input), Ok))
RECURSIVE FoldTags(_, _, _)
FoldTags(acc, tagList, text) ==
    IF tagList = <<>> THEN acc
    ELSE IF acc.kind = "Panic" THEN acc
    ELSE FoldTags(IF acc.kind = "Ok" THEN acc ELSE TakeUntilCased(Head(tagList), text),
                  Tail(tagList), text)

TakeUntilParser(tagList, text) == FoldTags(Error(text, "Alt"), tagList, text)

\* nom's alt over take_until_no_case scans: the first scan that succeeds wins,
\* and the error of the last scan is returned when none does.
RECURSIVE AltNoCase(_, _)
AltNoCase(tagList, text) ==
    LET r == TakeUntilNoCase(Head(tagList), text)
    IN  IF r.kind # "Err" \/ Len(tagList) = 1 THEN r
        ELSE AltNoCase(Tail(tagList), text)

\* lp_problem.rs line 79: the four scans of try_from ("st" is not among them)
TryFromScanTags == <<KwSubjectTo, KwSuchThat, KwSDotT, KwStColon>>

(***************************************************************************)
(* The scans as operations: a text and a keyword list are drawn, and one   *)
(* of the scans is applied.                                                *)
(***************************************************************************)
ScanAlphabet == {"s", "S", "t", ":", "x", "e_acute"}
ScanKeywords == {KwStColon, KwSt}

TagLists ==
    {tl \in UNION {[1..k -> ScanKeywords] : k \in 1..MaxTags} :
        \A i, j \in 1..Len(tl) : i # j => tl[i] # tl[j]}

InitScan ==
    /\ input \in TextsUpTo(ScanAlphabet, MaxScanLen)
    /\ tags \in TagLists
    /\ variant = <<>>
    /\ pc = "start"
    /\ rest = <<>>
    /\ res = NotRun
    /\ vres = NotRun
    /\ stages = <<>>
    /\ parts = <<>>

CallTakeUntilCased ==
    /\ pc = "start"
    /\ pc' = "take_until_cased"
    /\ res' = TakeUntilCased(tags[1], input)
    /\ UNCHANGED <<input, tags, variant, rest, vres, stages, parts>>

CallTakeUntilNoCase ==
    /\ pc = "start"
    /\ pc' = "take_until_no_case"
    /\ res' = TakeUntilNoCase(tags[1], input)
    /\ UNCHANGED <<input, tags, variant, rest, vres, stages, parts>>

CallTakeUntilParser ==
    /\ pc = "start"
    /\ pc' = "take_until_parser"
    /\ res' = TakeUntilParser(tags, input)
    /\ UNCHANGED <<input, tags, variant, rest, vres, stages, parts>>

CallAltNoCase ==
    /\ pc = "start"
    /\ pc' = "alt"
    /\ res' = AltNoCase(tags, input)
    /\ UNCHANGED <<input, tags, variant, rest, vres, stages, parts>>

NextScan ==
    \/ CallTakeUntilCased
    \/ CallTakeUntilNoCase
    \/ CallTakeUntilParser
    \/ CallAltNoCase

SpecScan == InitScan /\ [][NextScan]_vars

(***************************************************************************)
(* Properties of the scans.                                                *)
(***************************************************************************)
\* The keyword occurs in the text at char position p (0-based), in any case.
OccursAt(tag, text, p) ==
    /\ p + Len(tag) <= Len(text)
    /\ \A i \in 1..Len(tag) : ToLowerChar(text[p + i]) = ToLowerChar(tag[i])

Occurrences(tag, text) == {p \in 0..Len(text) : OccursAt(tag, text, p)}

FirstOccurrence(tag, text) ==
    CHOOSE p \in Occurrences(tag, text) : \A q \in Occurrences(tag, text) : p <= q

\* C1: the multi-keyword scan (take_until_parser, and the alt of scans) splits
\* the input at the earliest position at which any keyword of the list occurs:
\* no keyword of the list occurs at a position before the returned split
\* point, whatever the order of the keywords in the list.
C1_SplitsAtEarliestKeyword ==
    (pc \in {"take_until_parser", "alt"} /\ res.kind = "Ok") =>
        \A i \in 1..Len(tags) : \A p \in 0..(Len(res.out) - 1) :
            ~OccursAt(tags[i], input, p)

\* C2: take_until_cased returns an error when the keyword does not occur in
\* the input, and otherwise the pair (before, remainder) split at the first
\* case-insensitive occurrence, for every input, multi-byte characters before
\* the occurrence included.
C2_SplitsAtFirstOccurrence ==
    pc = "take_until_cased" =>
        IF Occurrences(tags[1], input) = {}
        THEN res.kind = "Err"
        ELSE /\ res.kind = "Ok"
             /\ res.out = Take(input, FirstOccurrence(tags[1], input))
             /\ res.rest = Drop(input, FirstOccurrence(tags[1], input))
             /\ res.out \o res.rest = input

\* C11: for every input, a text shorter than the keyword and the empty text
\* included, take_until_no_case (called directly, or through the alt of scans
\* of try_from) returns a split or an error value: the bound
\* chars.len() - tag.len() never goes below zero, no slice is out of range,
\* and the call never aborts.
C11_ScanNeverAborts ==
    pc \in {"take_until_no_case", "alt"} => res.kind \in {"Ok", "Err"}

\* C11 restricted to texts at least as long as every keyword searched and made
\* of one-byte chars only: the only calls on which the scan does return.
C11_ReturnsOnLongAsciiText ==
    (/\ pc \in {"take_until_no_case", "alt"}
     /\ \A i \in 1..Len(tags) : Len(input) >= StrLen(tags[i])
     /\ \A i \in 1..Len(input) : LenUtf8(input[i]) = 1)
        => res.kind \in {"Ok", "Err"}

(***************************************************************************)
(* src/src/lib.rs: the section recognizers. tag_no_case compares the first *)
(* chars of the input with the tag, ignoring case, and splits the input    *)
(* after the tag; alt returns the result of the first alternative that     *)
(* succeeds.                                                               *)
(***************************************************************************)
TagNoCase(tag, text) ==
    IF /\ Len(text) >= Len(tag)
       /\ \A i \in 1..Len(tag) : ToLowercase(<<text[i]>>) = ToLowercase(<<tag[i]>>)
    THEN Ok(Drop(text, Len(tag)), Take(text, Len(tag)))
    ELSE Error(text, "Tag")

RECURSIVE AltTagNoCase(_, _)
AltTagNoCase(tagList, text) ==
    LET r == TagNoCase(Head(tagList), text)
    IN  IF r.kind = "Ok" \/ Len(tagList) = 1 THEN r
        ELSE AltTagNoCase(Tail(tagList), text)

is_binary_section(text) == AltTagNoCase(<<KwBinaries, KwBinary, KwBin>>, text)
is_bounds_section(text) == AltTagNoCase(<<KwBounds, KwBound>>, text)
is_generals_section(text) == AltTagNoCase(<<KwGenerals, KwGeneral, KwGen>>, text)
is_integers_section(text) == AltTagNoCase(<<KwIntegers, KwInteger>>, text)
is_semi_section(text) == AltTagNoCase(<<KwSemis, KwSemi>>, text)
is_sos_section(text) == TagNoCase(KwSos, text)

(***************************************************************************)
(* The recognizers as operations: the input is a header spelling, or a     *)
(* spelling cut short, in lower case, upper case or capitalised, followed  *)
(* by a short suffix.                                                      *)
(***************************************************************************)
HeaderSpellings ==
    {KwBounds, KwBound, KwGenerals, KwGeneral, KwGen, KwIntegers, KwInteger,
     KwBinaries, KwBinary, KwBin, KwSemiContinuous, KwSemis, KwSemi, KwSos, KwEnd}

Capitalised(s) == IF s = <<>> THEN s ELSE <<ToUpperChar(Head(s))>> \o Tail(s)

Cases(s) == {s, ToUppercase(s), Capitalised(s)}

SuffixAlphabet == {"s", "-", ":", " ", "\n", "x"}

HeaderInputs ==
    {c \o suffix :
        c \in UNION {UNION {Cases(Take(h, k)) : k \in 2..Len(h)} : h \in HeaderSpellings},
        suffix \in TextsUpTo(SuffixAlphabet, MaxSuffix)}

InitHeaders ==
    /\ input \in HeaderInputs
    /\ tags = <<>>
    /\ variant = <<>>
    /\ pc = "start"
    /\ rest = <<>>
    /\ res = NotRun
    /\ vres = NotRun
    /\ stages = <<>>
    /\ parts = <<>>

CallIsBinarySection ==
    /\ pc = "start"
    /\ pc' = "is_binary_section"
    /\ res' = is_binary_section(input)
    /\ UNCHANGED <<input, tags, variant, rest, vres, stages, parts>>

CallIsBoundsSection ==
    /\ pc = "start"
    /\ pc' = "is_bounds_section"
    /\ res' = is_bounds_section(input)
    /\ UNCHANGED <<input, tags, variant, rest, vres, stages, parts>>

CallIsGeneralsSection ==
    /\ pc = "start"
    /\ pc' = "is_generals_section"
    /\ res' = is_generals_section(input)
    /\ UNCHANGED <<input, tags, variant, rest, vres, stages, parts>>

CallIsIntegersSection ==
    /\ pc = "start"
    /\ pc' = "is_integers_section"
    /\ res' = is_integers_section(input)
    /\ UNCHANGED <<input, tags, variant, rest, vres, stages, parts>>

CallIsSemiSection ==
    /\ pc = "start"
    /\ pc' = "is_semi_section"
    /\ res' = is_semi_section(input)
    /\ UNCHANGED <<input, tags, variant, rest, vres, stages, parts>>

CallIsSosSection ==
    /\ pc = "start"
    /\ pc' = "is_sos_section"
    /\ res' = is_sos_section(input)
    /\ UNCHANGED <<input, tags, variant, rest, vres, stages, parts>>

NextHeaders ==
    \/ CallIsBinarySection
    \/ CallIsBoundsSection
    \/ CallIsGeneralsSection
    \/ CallIsIntegersSection
    \/ CallIsSemiSection
    \/ CallIsSosSection

SpecHeaders == InitHeaders /\ [][NextHeaders]_vars

(***************************************************************************)
(* Properties of the recognizers.                                          *)
(***************************************************************************)
\* The spellings each recognizer accepts: the header tables of lib.rs without
\* their "end" entry (bounds: the first two entries of ALL_BOUND_HEADERS).
AcceptedSpellings(recognizer) ==
    CASE recognizer = "is_binary_section" -> {KwBinaries, KwBinary, KwBin}
      [] recognizer = "is_bounds_section" -> {KwBounds, KwBound}
      [] recognizer = "is_generals_section" -> {KwGenerals, KwGeneral, KwGen}
      [] recognizer = "is_integers_section" -> {KwIntegers, KwInteger}
      [] recognizer = "is_semi_section" -> {KwSemiContinuous, KwSemis, KwSemi}
      [] recognizer = "is_sos_section" -> {KwSos}
      [] OTHER -> {}

SpellingsAtStart(recognizer, text) ==
    {h \in AcceptedSpellings(recognizer) : OccursAt(h, text, 0)}

LongestSpellingAtStart(recognizer, text) ==
    CHOOSE h \in SpellingsAtStart(recognizer, text) :
        \A g \in SpellingsAtStart(recognizer, text) : Len(g) <= Len(h)

\* C10: a section recognizer, on an input that begins with an accepted
\* spelling of its header in any letter case, consumes the longest accepted
\* spelling that is a prefix of the input (semi-continuous as a whole).
C10_ConsumesLongestSpelling ==
    (pc # "start" /\ SpellingsAtStart(pc, input) # {}) =>
        /\ res.kind = "Ok"
        /\ res.out = Take(input, Len(LongestSpellingAtStart(pc, input)))
        /\ res.rest = Drop(input, Len(LongestSpellingAtStart(pc, input)))

(***************************************************************************)
(* src/src/parsers/problem_name.rs and src/src/nom/decoder/problem_name.rs:*)
(* the comment / problem-name scanner, with the nom combinators it uses.   *)
(***************************************************************************)
BlockOpener == <<"\\", "*">>
AltBlockOpener == <<"\\", "\\", "*">>
LineOpener == <<"\\">>
BlockCloser == <<"*", "\\">>

\* nom::bytes::complete::tag
Tag(t, text) ==
    IF Len(text) >= Len(t) /\ Take(text, Len(t)) = t
    THEN Ok(Drop(text, Len(t)), t)
    ELSE Error(text, "Tag")

\* nom::bytes::complete::take_until
TakeUntil(t, text) ==
    LET hits == {i \in 0..(Len(text) - Len(t)) : SubSeq(text, i + 1, i + Len(t)) = t}
    IN  IF hits = {} THEN Error(text, "TakeUntil")
        ELSE LET i == CHOOSE h \in hits : \A g \in hits : h <= g
             IN  Ok(Drop(text, i), Take(text, i))

\* nom::character::complete::multispace0
RECURSIVE Multispace0(_)
Multispace0(text) ==
    IF text # <<>> /\ Head(text) \in {" ", "\t", "\r", "\n"}
    THEN Multispace0(Tail(text))
    ELSE text

\* nom::character::complete::not_line_ending: up to the first "\r" or "\n";
\* an "\r" that no "\n" follows is an error.
NotLineEnding(text) ==
    LET ends == {i \in 1..Len(text) : text[i] \in {"\r", "\n"}}
    IN  IF ends = {} THEN Ok(<<>>, text)
        ELSE LET i == CHOOSE e \in ends : \A g \in ends : e <= g
             IN  IF text[i] = "\r" /\ ~(i < Len(text) /\ text[i + 1] = "\n")
                 THEN Error(text, "Tag")
                 ELSE Ok(Drop(text, i - 1), Take(text, i - 1))

\* nom::character::complete::line_ending
LineEnding(text) ==
    IF text # <<>> /\ Head(text) = "\n" THEN Ok(Tail(text), <<"\n">>)
    ELSE IF Len(text) >= 2 /\ Take(text, 2) = <<"\r", "\n">> THEN Ok(Drop(text, 2), Take(text, 2))
    ELSE Error(text, "CrLf")

\* alt((tag("\\\\*"), tag("\\*"), tag("\\")))
CommentStart(text) ==
    IF Tag(AltBlockOpener, text).kind = "Ok" THEN Tag(AltBlockOpener, text)
    ELSE IF Tag(BlockOpener, text).kind = "Ok" THEN Tag(BlockOpener, text)
    ELSE Tag(LineOpener, text)

\* The block arm: recognize(take_until("*\\")), then tuple((tag("*\\"), multispace0))
BlockCommentTail(text) ==
    LET content == TakeUntil(BlockCloser, text)
    IN  IF content.kind # "Ok" THEN content
        ELSE Ok(Multispace0(Tag(BlockCloser, content.rest).rest), content.out)

\* (a scanner that leaves the line ending of a line comment in the input)
LineCommentTailKeepsEnding(text) ==
    LET content == NotLineEnding(text)
    IN  IF content.kind # "Ok" THEN content
        ELSE IF LineEnding(content.rest).kind # "Ok" THEN LineEnding(content.rest)
        ELSE Ok(content.rest, content.out)

\* The line arm: recognize(not_line_ending), then line_ending
LineCommentTail(text) ==
    LET content == NotLineEnding(text)
    IN  IF content.kind # "Ok" THEN content
        ELSE IF LineEnding(content.rest).kind # "Ok" THEN LineEnding(content.rest)
        ELSE Ok(LineEnding(content.rest).rest, content.out)

parse_single_comment(text) ==
    LET start == CommentStart(text)
    IN  IF start.kind # "Ok" THEN start
        ELSE IF start.out \in {AltBlockOpener, BlockOpener} THEN BlockCommentTail(start.rest)
        ELSE LineCommentTail(start.rest)

\* nom::multi::many0(parse_single_comment): collects until the first error,
\* which it swallows. (Its guard against a parser that consumes nothing never
\* trips: a comment consumes at least its opener.)
RECURSIVE Many0Comments(_, _)
Many0Comments(text, comments) ==
    LET r == parse_single_comment(text)
    IN  IF r.kind # "Ok" THEN [rest |-> text, comments |-> comments]
        ELSE Many0Comments(r.rest, Append(comments, r.out))

\* (a scanner that returns the first comment, comments.first())
FirstComment(comments) ==
    IF comments = <<>> THEN None ELSE Some(comments[1])

\* comments.last().copied()
LastComment(comments) ==
    IF comments = <<>> THEN None ELSE Some(comments[Len(comments)])

\* parsers/problem_name.rs
parse_problem_name(text) ==
    LET m == Many0Comments(text, <<>>)
    IN  Ok(m.rest, LastComment(m.comments))

\* nom/decoder/problem_name.rs
parse_comments(text) ==
    LET m == Many0Comments(text, <<>>)
    IN  Ok(m.rest, LastComment(m.comments))

(***************************************************************************)
(* The scanner as an operation. The input is any text of up to             *)
(* MaxCommentLen characters over the comment alphabet, or up to MaxPieces  *)
(* pieces put end to end: comments as the crate's tests write them, line   *)
(* breaks, an unterminated block and the text that follows a prelude.      *)
(***************************************************************************)
CommentAlphabet == {"\\", "*", "\n", " ", "a"}

CommentPieces ==
    { <<"\\", "*", " ", "n", " ", "*", "\\">>,
      <<"\\", "\\", "*", "m", "*", "\\">>,
      <<"\\", "E", "N", "C", "O", "D", "I", "N", "G", "=", "x", "\n">>,
      <<"\\", " ", "p", "\n">>,
      <<"\\", "q", "\r", "\n">>,
      <<"\\", "c", "\r", "d", "\n">>,
      <<"\r">>,
      <<"\\", "*", " ", "u">>,
      <<"\n">>,
      <<"\t">>,
      <<"m", "i", "n">> }

RECURSIVE PieceRuns(_)
PieceRuns(n) ==
    IF n = 0 THEN {<<>>}
    ELSE PieceRuns(n - 1) \cup {r \o c : r \in PieceRuns(n - 1), c \in CommentPieces}

CommentInputs == TextsUpTo(CommentAlphabet, MaxCommentLen) \cup PieceRuns(MaxPieces)

Whitespace == {" ", "\t", "\n"}

InsertAt(text, i, c) == Take(text, i) \o <<c>> \o Drop(text, i)

(***************************************************************************)
(* The comment grammar of the LP format, stated without the scanner: the   *)
(* three forms, told apart by their opener (the longest opener first).     *)
(***************************************************************************)
StartsWith(text, t) == Len(text) >= Len(t) /\ Take(text, Len(t)) = t

\* text[openerLen+1 ..] is a body closed by the first "*\" after the opener,
\* which ends the text
ClosesAtEnd(text, openerLen) ==
    /\ Len(text) >= openerLen + 2
    /\ \A p \in (openerLen + 1)..(Len(text) - 1) :
          (text[p] = "*" /\ text[p + 1] = "\\") <=> p = Len(text) - 1

IsBlockComment(text) == StartsWith(text, BlockOpener) /\ ClosesAtEnd(text, 2)

IsAltBlockComment(text) == StartsWith(text, AltBlockOpener) /\ ClosesAtEnd(text, 3)

LineTerminatorLen(text) ==
    IF Len(text) >= 2 /\ text[Len(text) - 1] = "\r" /\ text[Len(text)] = "\n" THEN 2
    ELSE IF Len(text) >= 1 /\ text[Len(text)] = "\n" THEN 1
    ELSE 0

IsLineComment(text) ==
    /\ StartsWith(text, LineOpener)
    /\ ~StartsWith(text, BlockOpener)
    /\ ~StartsWith(text, AltBlockOpener)
    /\ LineTerminatorLen(text) > 0
    /\ \A p \in 2..(Len(text) - LineTerminatorLen(text)) : text[p] \notin {"\r", "\n"}

IsComment(text) == IsBlockComment(text) \/ IsAltBlockComment(text) \/ IsLineComment(text)

CommentBody(text) ==
    IF IsAltBlockComment(text) THEN SubSeq(text, 4, Len(text) - 2)
    ELSE IF IsBlockComment(text) THEN SubSeq(text, 3, Len(text) - 2)
    ELSE SubSeq(text, 2, Len(text) - LineTerminatorLen(text))

\* a run of comments, one right after the other
RECURSIVE IsCommentRun(_)
IsCommentRun(text) ==
    IF text = <<>> THEN TRUE
    ELSE \E k \in 1..Len(text) : IsComment(Take(text, k)) /\ IsCommentRun(Drop(text, k))

RECURSIVE BodiesOfRun(_)
BodiesOfRun(text) ==
    IF text = <<>> THEN <<>>
    ELSE LET k == CHOOSE j \in 1..Len(text) :
                      IsComment(Take(text, j)) /\ IsCommentRun(Drop(text, j))
         IN  <<CommentBody(Take(text, k))>> \o BodiesOfRun(Drop(text, k))

\* comments with spaces, tabs and line breaks before, between and after them
RECURSIVE IsPrelude(_)
IsPrelude(text) ==
    IF text = <<>> THEN TRUE
    ELSE IF Head(text) \in {" ", "\t", "\r", "\n"} /\ IsPrelude(Tail(text)) THEN TRUE
    ELSE \E k \in 1..Len(text) : IsComment(Take(text, k)) /\ IsPrelude(Drop(text, k))

AllWhitespace(text) == \A i \in 1..Len(text) : text[i] \in {" ", "\t", "\r", "\n"}

InitComments ==
    /\ input \in CommentInputs
    /\ tags = <<>>
    /\ variant = <<>>
    /\ pc = "start"
    /\ rest = <<>>
    /\ res = NotRun
    /\ vres = NotRun
    /\ stages = <<>>
    /\ parts = <<>>

CallParseProblemName ==
    /\ pc = "start"
    /\ pc' = "parse_problem_name"
    /\ res' = parse_problem_name(input)
    /\ UNCHANGED <<input, tags, variant, rest, vres, stages, parts>>

CallParseComments ==
    /\ pc = "start"
    /\ pc' = "parse_comments"
    /\ res' = parse_comments(input)
    /\ UNCHANGED <<input, tags, variant, rest, vres, stages, parts>>

\* The scanner on the input and on the input with one more space, tab or line
\* break before, between or after its comments.
CallOnWhitespaceVariant ==
    /\ pc = "start"
    /\ \E i \in 0..Len(input), c \in Whitespace :
          /\ IsPrelude(Take(input, i))
          /\ variant' = InsertAt(input, i, c)
          /\ vres' = parse_problem_name(InsertAt(input, i, c))
    /\ pc' = "whitespace_variant"
    /\ res' = parse_problem_name(input)
    /\ UNCHANGED <<input, tags, rest, stages, parts>>

NextComments ==
    \/ CallParseProblemName
    \/ CallParseComments
    \/ CallOnWhitespaceVariant

SpecComments == InitComments /\ [][NextComments]_vars

(***************************************************************************)
(* Properties of the comment / problem-name scanner.                       *)
(***************************************************************************)
ScannerRan == pc \in {"parse_problem_name", "parse_comments"}

\* A block comment opens at offset i, right after a run of complete comments,
\* and no "*\" closes it anywhere after the opener.
UnterminatedAt(text, i) ==
    /\ IsCommentRun(Take(text, i))
    /\ CommentStart(Drop(text, i)).kind = "Ok"
    /\ CommentStart(Drop(text, i)).out \in {BlockOpener, AltBlockOpener}
    /\ TakeUntil(BlockCloser, CommentStart(Drop(text, i)).rest).kind = "Err"

\* C4: when the prelude holds a block comment opener with no terminator after
\* it, the scanner fails with UnterminatedComment located at the opener; it does
\* not succeed with the unterminated comment left in the remaining input.
C4_UnterminatedCommentFails ==
    ScannerRan =>
        \A i \in 0..Len(input) :
            UnterminatedAt(input, i) =>
                /\ res.kind = "Err"
                /\ res.code = "UnterminatedComment"
                /\ res.at = Drop(input, i)

RECURSIVE StripStart(_)
StripStart(text) ==
    IF text # <<>> /\ Head(text) \in {" ", "\t", "\r", "\n"} THEN StripStart(Tail(text))
    ELSE text

RECURSIVE StripEnd(_)
StripEnd(text) ==
    IF text # <<>> /\ text[Len(text)] \in {" ", "\t", "\r", "\n"}
    THEN StripEnd(Take(text, Len(text) - 1))
    ELSE text

Strip(text) == StripEnd(StripStart(text))

EncodingPrefix == <<"E", "N", "C", "O", "D", "I", "N", "G", "=">>

IsEncodingForm(body) == StartsWith(Strip(body), EncodingPrefix)

\* a decorative marker: a rule of "*", "-" or "=" characters
IsDecorative(body) ==
    Strip(body) # <<>> /\ \A i \in 1..Len(Strip(body)) : Strip(body)[i] \in {"*", "-", "="}

IsNameHint(body) == Strip(body) # <<>> /\ ~IsEncodingForm(body) /\ ~IsDecorative(body)

NameHints(bodies) == SelectSeq(bodies, IsNameHint)

HeuristicName(bodies) ==
    IF NameHints(bodies) = <<>> THEN None
    ELSE Some(Strip(NameHints(bodies)[Len(NameHints(bodies))]))

Consumed == Take(input, Len(input) - Len(res.rest))

C9_WhitespaceIdempotence ==
    pc = "whitespace_variant" =>
        /\ vres.out = res.out
        /\ StripStart(vres.rest) = StripStart(res.rest)

(***************************************************************************)
(* The section parsers try_from calls. Their code is not part of the       *)
(* sources at hand; they are modelled from the format description:         *)
(* parse_sense (4.D), parse_constraint_header (4.B), parse_objectives      *)
(* (4.E) and parse_constraints (4.F, standard constraints). A coefficient  *)
(* keeps its number as written; no property here reads its value.          *)
(***************************************************************************)
KwMinimize == <<"m","i","n","i","m","i","z","e">>
KwMinimise == <<"m","i","n","i","m","i","s","e">>
KwMin == <<"m","i","n">>
KwMaximize == <<"m","a","x","i","m","i","z","e">>
KwMaximise == <<"m","a","x","i","m","i","s","e">>
KwMax == <<"m","a","x">>

\* 4.D: the sense keyword, in any case, and the whitespace around it
parse_sense(text) ==
    LET t == Multispace0(text)
        mn == AltTagNoCase(<<KwMinimize, KwMinimise, KwMin>>, t)
        mx == AltTagNoCase(<<KwMaximize, KwMaximise, KwMax>>, t)
    IN  IF mn.kind = "Ok" THEN Ok(Multispace0(mn.rest), "Minimize")
        ELSE IF mx.kind = "Ok" THEN Ok(Multispace0(mx.rest), "Maximize")
        ELSE Error(text, "MissingSense")

\* 4.B: a constraint header, the longer spellings first, then any immediate
\* ":" and the whitespace that follows
parse_constraint_header(text) ==
    LET h == AltTagNoCase(CONSTRAINT_HEADERS, Multispace0(text))
    IN  IF h.kind # "Ok" THEN Error(text, "MissingConstraintHeader")
        ELSE Ok(Multispace0(IF h.rest # <<>> /\ Head(h.rest) = ":" THEN Tail(h.rest) ELSE h.rest),
                h.out)

\* the whitespace-separated tokens of a text
RECURSIVE Tokens(_, _)
Tokens(text, word) ==
    IF text = <<>> THEN (IF word = <<>> THEN <<>> ELSE <<word>>)
    ELSE IF Head(text) \in {" ", "\t", "\r", "\n"}
         THEN (IF word = <<>> THEN <<>> ELSE <<word>>) \o Tokens(Tail(text), <<>>)
         ELSE Tokens(Tail(text), Append(word, Head(text)))

DigitChars == {"0", "1", "2", "3", "4", "5", "6", "7", "8", "9", "."}
SignTokens == {<<"+">>, <<"-">>}
OperatorTokens ==
    {<<"<", "=">>, <<"<">>, <<"=", "<">>, <<">", "=">>, <<">">>, <<"=", ">">>, <<"=">>, <<"=", "=">>}

IsLabel(tok) == Len(tok) >= 2 /\ tok[Len(tok)] = ":"
LabelName(tok) == Take(tok, Len(tok) - 1)

IsSectionHeaderToken(tok) ==
    \E h \in HeaderSpellings : ToLowercase(tok) = h \/ ToLowercase(tok) = h \o <<":">>

Unsigned(tok) == IF tok # <<>> /\ Head(tok) \in {"+", "-"} THEN Tail(tok) ELSE tok

RECURSIVE LeadingDigits(_)
LeadingDigits(tok) ==
    IF tok # <<>> /\ Head(tok) \in DigitChars THEN 1 + LeadingDigits(Tail(tok)) ELSE 0

\* the variable name a term token ends with ("2y" names y, "-0.5" names none)
VariableOf(tok) == Drop(Unsigned(tok), LeadingDigits(Unsigned(tok)))
NumberOf(tok) == Take(tok, Len(tok) - Len(VariableOf(tok)))

\* A linear expression: signed terms [sign] [coefficient] variable. `pending`
\* is the sign and number read for the term whose variable is still to come.
RECURSIVE Terms(_, _, _)
Terms(tokens, pending, coefficients) ==
    IF tokens = <<>>
    THEN IF pending = <<>> THEN [ok |-> TRUE, coefficients |-> coefficients]
         ELSE IF pending \in SignTokens THEN [ok |-> FALSE, code |-> "UnexpectedEndOfInput"]
         ELSE [ok |-> TRUE,
               coefficients |-> Append(coefficients, [var_name |-> <<>>, coefficient |-> pending])]
    ELSE LET tok == Head(tokens)
         IN  IF VariableOf(tok) = <<>>
             THEN Terms(Tail(tokens), pending \o tok, coefficients)
             ELSE Terms(Tail(tokens), <<>>,
                        Append(coefficients,
                               [var_name |-> VariableOf(tok),
                                coefficient |-> pending \o NumberOf(tok)]))

\* the tokens up to the next label
RECURSIVE UntilLabel(_)
UntilLabel(tokens) ==
    IF tokens = <<>> \/ IsLabel(Head(tokens)) THEN <<>>
    ELSE <<Head(tokens)>> \o UntilLabel(Tail(tokens))

\* 4.E: <name> ':' <linear-expression>, one objective after the other
RECURSIVE ObjectiveList(_, _)
ObjectiveList(tokens, objectives) ==
    IF tokens = <<>> THEN [ok |-> TRUE, list |-> objectives]
    ELSE IF ~IsLabel(Head(tokens)) THEN [ok |-> FALSE, code |-> "MissingObjectiveName"]
    ELSE LET body == UntilLabel(Tail(tokens))
             terms == Terms(body, <<>>, <<>>)
         IN  IF ~terms.ok THEN terms
             ELSE IF \E i \in 1..Len(objectives) : objectives[i].name = LabelName(Head(tokens))
             THEN [ok |-> FALSE, code |-> "DuplicateName"]
             ELSE ObjectiveList(Drop(tokens, 1 + Len(body)),
                                Append(objectives,
                                       [name |-> LabelName(Head(tokens)),
                                        coefficients |-> terms.coefficients]))

\* A map is the set of its entries, one per key.
Keys(map) == {e.name : e \in map}

DefaultVariable(name) ==
    [name |-> name, var_type |-> "Continuous", lower |-> "0", upper |-> "inf"]

\* the variable names the coefficient lists mention (a constant has none)
MentionedNames(list) ==
    UNION {{list[i].coefficients[j].var_name : j \in 1..Len(list[i].coefficients)} :
              i \in 1..Len(list)} \ {<<>>}

\* every variable a coefficient list mentions, registered with the defaults
RegisteredVariables(list) == {DefaultVariable(v) : v \in MentionedNames(list)}

EntriesOf(list) == {list[i] : i \in 1..Len(list)}

parse_objectives(text) ==
    LET r == ObjectiveList(Tokens(text, <<>>), <<>>)
    IN  IF ~r.ok THEN Error(text, r.code)
        ELSE IF r.list = <<>> THEN Error(text, "MissingObjective")
        ELSE Ok(<<>>, [objectives |-> EntriesOf(r.list), variables |-> RegisteredVariables(r.list)])

\* the tokens up to the comparison operator of a constraint
RECURSIVE UntilOperator(_)
UntilOperator(tokens) ==
    IF tokens = <<>> \/ Head(tokens) \in OperatorTokens \/ IsLabel(Head(tokens)) THEN <<>>
    ELSE <<Head(tokens)>> \o UntilOperator(Tail(tokens))

IsNumber(tok) == Unsigned(tok) # <<>> /\ VariableOf(tok) = <<>>

DecimalDigits == <<"0", "1", "2", "3", "4", "5", "6", "7", "8", "9">>

RECURSIVE DecimalText(_)
DecimalText(n) ==
    IF n < 10 THEN <<DecimalDigits[n + 1]>>
    ELSE DecimalText(n \div 10) \o <<DecimalDigits[(n % 10) + 1]>>

\* 4.F: [<name> ':'] <linear-expression> <op> <rhs>, one constraint after the
\* other, up to a section header or the end of the text; a constraint with no
\* name is named c_<index>
RECURSIVE ConstraintList(_, _, _)
ConstraintList(tokens, constraints, used) ==
    IF tokens = <<>> \/ IsSectionHeaderToken(Head(tokens))
    THEN [ok |-> TRUE, list |-> constraints, used |-> used]
    ELSE LET named == IsLabel(Head(tokens))
             name == IF named THEN LabelName(Head(tokens))
                     ELSE <<"c", "_">> \o DecimalText(Len(constraints) + 1)
             after == IF named THEN Tail(tokens) ELSE tokens
             lhs == UntilOperator(after)
             tail == Drop(after, Len(lhs))
             terms == Terms(lhs, <<>>, <<>>)
         IN  IF tail = <<>> \/ Head(tail) \notin OperatorTokens
             THEN [ok |-> FALSE, code |-> "UnsupportedConstraintShape"]
             ELSE IF Len(tail) < 2 \/ ~IsNumber(tail[2])
             THEN [ok |-> FALSE, code |-> "MissingRHS"]
             ELSE IF ~terms.ok THEN terms
             ELSE IF \E i \in 1..Len(constraints) : constraints[i].name = name
             THEN [ok |-> FALSE, code |-> "DuplicateName"]
             ELSE ConstraintList(Drop(tail, 2),
                                 Append(constraints,
                                        [name |-> name, coefficients |-> terms.coefficients,
                                         operator |-> Head(tail), rhs |-> tail[2]]),
                                 used + (IF named THEN 1 ELSE 0) + Len(lhs) + 2)

\* the text left after its first n tokens
RECURSIVE SkipTokens(_, _, _)
SkipTokens(text, n, inWord) ==
    IF text = <<>> THEN text
    ELSE IF Head(text) \in {" ", "\t", "\r", "\n"}
         THEN IF inWord /\ n = 1 THEN text ELSE SkipTokens(Tail(text), IF inWord THEN n - 1 ELSE n, FALSE)
         ELSE IF n = 0 THEN text ELSE SkipTokens(Tail(text), n, TRUE)

parse_constraints(text) ==
    LET r == ConstraintList(Tokens(text, <<>>), <<>>, 0)
    IN  IF ~r.ok THEN Error(text, r.code)
        ELSE Ok(SkipTokens(text, r.used, FALSE),
                [constraints |-> EntriesOf(r.list), variables |-> RegisteredVariables(r.list)])

(***************************************************************************)
(* src/src/nom/lp_problem.rs: LPProblem::try_from, stage by stage.         *)
(***************************************************************************)
\* (a merge that keeps the objective variables alone)
ExtendDropsNewEntries(map, more) == map

\* HashMap::extend: the entries of `more` are inserted, each replacing the
\* entry of the same key
Extend(map, more) == {e \in map : e.name \notin Keys(more)} \cup more

\* (a try_from that goes from the scan straight to the objectives)
NextStageSkipsHeader(stage) ==
    CASE stage = "Prelude" -> "Sense"
      [] stage = "Sense" -> "ObjectiveScan"
      [] stage = "ObjectiveScan" -> "Objectives"
      [] stage = "ConstraintHeader" -> "Objectives"
      [] stage = "Objectives" -> "Constraints"
      [] stage = "Constraints" -> "Ok"

\* the order in which try_from runs its parsers; it returns Ok after the last
NextStage(stage) ==
    CASE stage = "Prelude" -> "Sense"
      [] stage = "Sense" -> "ObjectiveScan"
      [] stage = "ObjectiveScan" -> "ConstraintHeader"
      [] stage = "ConstraintHeader" -> "Objectives"
      [] stage = "Objectives" -> "Constraints"
      [] stage = "Constraints" -> "Ok"

\* The inputs: a prelude, a sense line, an objective section, a constraint
\* header in one of its spellings and letter cases, a constraint section and a
\* tail, each drawn from a few texts and put end to end.
PreludeTexts == {<<>>, <<"\\", "P", "r", "o", "b", "l", "e", "m", " ", "n", "a", "m", "e", ":", " ", "d", "i", "e", "t", "\n">>, <<"\\", "*", " ", "n", " ", "*", "\\", "\n", "\\", "E", "N", "C", "O", "D", "I", "N", "G", "=", "I", "S", "O", "\n">>, <<"\\", "*", " ", "u", "\n">>}
SenseTexts == {<<>>, <<"M", "i", "n", "i", "m", "i", "z", "e", "\n">>, <<"m", "a", "x", "\n">>}
ObjectiveTexts == {<<>>, <<" ", "o", "b", "j", ":", " ", "x", " ", "+", " ", "2", "y", "\n">>, <<" ", "o", "1", ":", " ", "-", "0", ".", "5", " ", "x", " ", "-", " ", "y", "\n", " ", "o", "2", ":", " ", "X", " ", "+", " ", "z", "\n">>, <<" ", "c", "o", "s", "t", ":", " ", "x", "\n">>}
HeaderTexts == {c \o <<"\n">> : c \in UNION {Cases(CONSTRAINT_HEADERS[i]) : i \in 1..5}}
                 \cup {KwSubjectTo \o <<":", "\n">>}
ConstraintTexts == {<<>>, <<" ", "c", "1", ":", " ", "x", " ", "+", " ", "w", " ", "<", "=", " ", "5", "\n">>, <<" ", "c", "1", ":", " ", "3", " ", "x", "1", " ", "+", " ", "x", "2", " ", "=", " ", "3", "0", "\n", " ", "c", "2", ":", " ", "y", " ", ">", "=", " ", "1", "\n">>}
TailTexts == {<<>>, <<"E", "n", "d", "\n">>}

ProblemParts ==
    [prelude : PreludeTexts, sense : SenseTexts, objective : ObjectiveTexts,
     header : HeaderTexts, constraints : ConstraintTexts, tail : TailTexts]

TextOf(p) == p.prelude \o p.sense \o p.objective \o p.header \o p.constraints \o p.tail

InitTryFrom ==
    /\ parts \in ProblemParts
    /\ input = TextOf(parts)
    /\ tags = <<>>
    /\ variant = <<>>
    /\ pc = "Prelude"
    /\ rest = input
    /\ res = [kind |-> "Running"]
    /\ vres = NotRun
    /\ stages = <<>>

Fail(r) ==
    /\ pc' = IF r.kind = "Panic" THEN "Panic" ELSE "Err"
    /\ res' = [kind |-> r.kind, error |-> r] @@ res
    /\ UNCHANGED <<rest, stages>>

Advance(remaining, fields) ==
    /\ pc' = NextStage(pc)
    /\ rest' = remaining
    /\ res' = fields @@ res
    /\ stages' = Append(stages, pc)

\* parse_problem_name
StepPrelude ==
    /\ pc = "Prelude"
    /\ LET r == parse_problem_name(rest)
       IN  IF r.kind # "Ok" THEN Fail(r) ELSE Advance(r.rest, [name |-> r.out])
    /\ UNCHANGED <<input, tags, variant, vres, parts>>

\* parse_sense
StepSense ==
    /\ pc = "Sense"
    /\ LET r == parse_sense(rest)
       IN  IF r.kind # "Ok" THEN Fail(r) ELSE Advance(r.rest, [sense |-> r.out])
    /\ UNCHANGED <<input, tags, variant, vres, parts>>

\* alt((take_until_no_case("subject to"), ..., take_until_no_case("st:")))
StepObjectiveScan ==
    /\ pc = "ObjectiveScan"
    /\ LET r == AltNoCase(TryFromScanTags, rest)
       IN  IF r.kind # "Ok" THEN Fail(r) ELSE Advance(r.rest, [obj_section |-> r.out])
    /\ UNCHANGED <<input, tags, variant, vres, parts>>

\* parse_constraint_header
StepConstraintHeader ==
    /\ pc = "ConstraintHeader"
    /\ LET r == parse_constraint_header(rest)
       IN  IF r.kind # "Ok" THEN Fail(r) ELSE Advance(r.rest, [cons_section |-> r.rest])
    /\ UNCHANGED <<input, tags, variant, vres, parts>>

\* parse_objectives(obj_section)
StepObjectives ==
    /\ pc = "Objectives"
    /\ LET r == parse_objectives(res.obj_section)
       IN  IF r.kind # "Ok" THEN Fail(r)
           ELSE Advance(rest, [objectives |-> r.out.objectives, obj_vars |-> r.out.variables])
    /\ UNCHANGED <<input, tags, variant, vres, parts>>

\* parse_constraints(input), variables.extend(constraint_vars), Ok(LPProblem {..})
StepConstraints ==
    /\ pc = "Constraints"
    /\ LET r == parse_constraints(rest)
       IN  IF r.kind # "Ok" THEN Fail(r)
           ELSE Advance(rest, [kind |-> "Ok",
                               constraints |-> r.out.constraints,
                               cons_vars |-> r.out.variables,
                               variables |-> Extend(res.obj_vars, r.out.variables)])
    /\ UNCHANGED <<input, tags, variant, vres, parts>>

NextTryFrom ==
    \/ StepPrelude
    \/ StepSense
    \/ StepObjectiveScan
    \/ StepConstraintHeader
    \/ StepObjectives
    \/ StepConstraints

SpecTryFrom == InitTryFrom /\ [][NextTryFrom]_vars

(***************************************************************************)
(* Properties of try_from.                                                 *)
(***************************************************************************)
Returned == pc \in {"Ok", "Err", "Panic"}

StagesRun == {stages[i] : i \in 1..Len(stages)}

\* the scan for the constraint header has been tried
ScanTried == "ObjectiveScan" \in StagesRun \/ (Returned /\ "Sense" \in StagesRun)

\* C3: for each accepted spelling of the constraint header (subject to, such
\* that, s.t., st:, st), in any letter case, try_from takes as objective region
\* the text from the end of the sense keyword up to the header, and parses the
\* constraints from the text after the header.
C3_ObjectiveRegionEndsAtHeader ==
    (ScanTried /\ IsPrelude(parts.prelude)) =>
        /\ "ObjectiveScan" \in StagesRun
        /\ Strip(res.obj_section) = Strip(parts.objective)
        /\ (pc # "ConstraintHeader") =>
              /\ "ConstraintHeader" \in StagesRun
              /\ Strip(res.cons_section) = Strip(parts.constraints \o parts.tail)

HasEndMarker(text) ==
    \E i \in 1..Len(Tokens(text, <<>>)) : ToLowercase(Tokens(text, <<>>)[i]) = KwEnd

IsPrefixOf(s, t) == Len(s) <= Len(t) /\ Take(t, Len(s)) = s

CoefficientNames(entries) ==
    UNION {{e.coefficients[j].var_name : j \in 1..Len(e.coefficients)} : e \in entries} \ {<<>>}

\* C8: on a successful parse the variable mapping holds exactly one entry per
\* case-sensitive name, its keys are the names the objective parser registered
\* together with those the constraint parser registered, and no name of a
\* coefficient list of an objective or a constraint is missing.
C8_VariablesAreUnionOfSections ==
    pc = "Ok" =>
        /\ \A e, f \in res.variables : e.name = f.name => e = f
        /\ Keys(res.variables) = Keys(res.obj_vars) \cup Keys(res.cons_vars)
        /\ CoefficientNames(res.objectives) \subseteq Keys(res.variables)
        /\ CoefficientNames(res.constraints) \subseteq Keys(res.variables)

\* Reached: a parse whose constraints name a variable the objectives do not,
\* and whose objectives name x and X.
C8_Witness ==
    /\ pc = "Ok"
    /\ CoefficientNames(res.constraints) \ CoefficientNames(res.objectives) # {}
    /\ CoefficientNames(res.objectives) \ CoefficientNames(res.constraints) # {}
    /\ {<<"x">>, <<"X">>} \subseteq Keys(res.variables)

====
